---- MODULE Spec2Model ----
(***************************************************************************)
(* A model of pytr's document synchronisation pipeline.                    *)
(*                                                                         *)
(*   src/pytr/dl.py     DL: dl_loop (the sequencer), dl_doc (enqueue),      *)
(*                      work_responses (drain), load_history                *)
(*   src/pytr/utils.py  Timeline            (v1: get_next_timeline,         *)
(*                        _get_timeline_details, timelineDetail)            *)
(*                      TimelineTransaction (v2: get_next_timeline_         *)
(*                        transactions, _get_timeline_details_v2,           *)
(*                        timelineDetailV2)                                 *)
(*                                                                         *)
(* Two specifications share the variables:                                 *)
(*   Spec    one run of the whole pipeline (walker, window, classifier,    *)
(*           drain) against a server that holds a finite timeline;         *)
(*   SpecDL  the Download Queue alone: any sequence of dl_doc calls, then  *)
(*           work_responses, then a second run of the process against the  *)
(*           same directory and history file.                              *)
(* LiveWalkerSpec (the run up to the end of pagination) and LiveSpecDL add *)
(* the fairness that the environment answers every request it was sent.    *)
(***************************************************************************)
EXTENDS Integers, Sequences, FiniteSets, TLC

(***************************************************************************)
(* Bounds of the model.                                                    *)
(***************************************************************************)
\* the longest timeline the server holds
MaxItems == 6
\* the most items the server puts in one page
MaxPageSize == 3
\* the most events of a timeline whose action descriptor fails the screening
MaxUnactionable == 1
\* the most dl_doc calls of one run under SpecDL
MaxEnqueue == 3
\* the most transport errors recv() raises in one run under SpecTransport
MaxErrors == 1
\* the longest timeline the server holds under SpecTransport, SpecOverlap and
\* SpecUnmatched, where an item may be taken in twice or a message is stray
MaxItemsRepeated == 3
\* the most items of a timeline whose details the handlers classify
MaxItemsClassified == 2

(***************************************************************************)
(* Text: a string is a sequence of characters, so that splitting a URL at  *)
(* "?" and a file at its line ends are computed, not assumed.              *)
(***************************************************************************)
QMark == "?"

Newline == "\n"

\* the document URLs the classifier may hand to dl_doc
Urls ==
    { <<"a">>, <<"a", "?", "x">>, <<"a", "?", "y">>, <<"b">> }

\* destination paths (output_path / subfolder / filepath, already joined)
Paths == {"p1", "p2"}

\* the history files a run may find at startup: absent or empty, or lines
\* written by earlier runs (each key newline-terminated)
HistoryFiles == { <<>>, <<"a", "\n">> }

Absent == <<"absent">>

\* what a destination path holds: nothing, a file of an earlier run, a file
\* opened for writing and never written, or the body served for a URL
Body(url) == <<"body">> \o url

RECURSIVE SplitFirst(_, _)
\* str.split(sep)[0]: the text before the first sep
SplitFirst(s, sep) ==
    IF s = <<>> THEN <<>>
    ELSE IF Head(s) = sep THEN <<>>
    ELSE <<Head(s)>> \o SplitFirst(Tail(s), sep)

RECURSIVE SplitLinesAcc(_, _)
SplitLinesAcc(text, cur) ==
    IF text = <<>> THEN (IF cur = <<>> THEN <<>> ELSE <<cur>>)
    ELSE IF Head(text) = Newline
         THEN <<cur>> \o SplitLinesAcc(Tail(text), <<>>)
         ELSE SplitLinesAcc(Tail(text), Append(cur, Head(text)))

\* str.splitlines()
SplitLines(text) == SplitLinesAcc(text, <<>>)

Range(s) == { s[i] : i \in 1..Len(s) }

\* doc_url.split('?')[0], mutated: the URL itself (no canonicalisation)
DocUrlBaseWhole(doc_url) == doc_url

\* dl.py:95  doc_url_base = doc_url.split('?')[0]
DocUrlBase(doc_url) == SplitFirst(doc_url, QMark)

(***************************************************************************)
(* State.                                                                  *)
(***************************************************************************)
VARIABLES
    \* ---- configuration of the run
    impl,                  \* "v1" (Timeline) or "v2" (TimelineTransaction)
    max_age_timestamp,     \* DL.since_timestamp, 0 = unbounded
    \* ---- the remote server and the channel
    server_ts,             \* the timeline, newest first: item i has timestamp server_ts[i]
    page_inflight,         \* the cursor of the page request not yet answered, or NoRequest
    detail_inflight,       \* the detail requests not yet answered: <<event id, number>>
    \* ---- Timeline / TimelineTransaction
    num_timelines,         \* num_timelines / num_timeline_transactions
    timeline_events,       \* timeline_events / timeline_events_v2 (pop() takes the last)
    num_timeline_details,  \* num_timeline_details / num_timeline_details_v2
    requested_detail,      \* requested_detail / requested_detail_v2
    received_detail,       \* received_detail / received_detail_v2
    events_with_docs,      \* v1: events_with_docs; v2: the keys of self.events
    events_without_docs,   \* v1: events_without_docs (the skipped events)
    \* ---- DL
    files,                 \* the output directory: path -> Absent or the file's content
    history_file,          \* the history file on disk
    history_buf,           \* written to the open history file, not yet flushed
    doc_urls_history,      \* self.doc_urls_history
    doc_urls,              \* self.doc_urls
    futures,               \* self.futures, each with its fetch state
    done,                  \* self.done
    r,                     \* work_responses' local r: the last successful response
    session,               \* self.session: the pool size and the fetches its workers hold
    last_msg,              \* dl_loop's locals subscription and response
    pc,                    \* where the process is
    \* ---- history variables of the model
    page_log,              \* the page requests sent and what each was answered with
    fired,                 \* how often the terminal condition has fired
    unactionable,          \* events popped so far whose shape fails the screening
    run,                   \* 1: first run, 2: second run on the same directory
    ncalls,                \* dl_doc calls of this run (SpecDL)
    last_call,             \* the destination path of the latest dl_doc call (SpecDL)
    prev_calls,            \* the (url, path) pairs dl_doc was called with in run 1
    prev_ok,               \* run 1 ended with exit(0)
    errors,                \* how often recv() has raised a transport error
    \* ---- the Event Classifier
    cl_event,              \* the event timelineDetailV2 classifies, with its details
    event_handler,         \* the attribute timelineDetailV2 looked the handler up by
    name,                  \* what the handler's call in timelineDetailV2 came to
    dl_calls,              \* the dl.dl_doc_v2 calls the handler made
    isin                   \* what get_isin(cl_event) came to

tlvars ==
    << impl, max_age_timestamp, server_ts, page_inflight, detail_inflight,
       num_timelines, timeline_events, num_timeline_details, requested_detail,
       received_detail, events_with_docs, events_without_docs, page_log, fired,
       unactionable >>

dlvars ==
    << files, history_file, history_buf, doc_urls_history, doc_urls, futures,
       done, r >>

ghostvars == << run, ncalls, last_call, prev_calls, prev_ok >>

\* what the steps of Spec and SpecDL leave alone: there every fetch runs to
\* its end unobserved and recv() always delivers a message
clvars == << cl_event, event_handler, name, dl_calls, isin >>

envvars == << session, last_msg, errors, clvars >>

vars == << tlvars, dlvars, pc, ghostvars, envvars >>

NoRequest == -1

Unset == <<"unset">>

EmptyFile == <<>>

OldFile == <<"old">>

NoCall == "nocall"

\* dl.py:22  max_workers=8
DefaultWorkers == 8

\* dl.py:43  FuturesSession(max_workers=max_workers): no fetch submitted yet
FuturesSession(max_workers) ==
    [ max_workers |-> max_workers, running |-> {}, fetched |-> {} ]

\* dl.py:73  before the first recv() returns, subscription and response are
\* unbound
NoMessage ==
    [ type |-> "none", items |-> <<>>, after |-> 0, id |-> <<0, 0>>,
      doc |-> << <<>>, "" >> ]

(***************************************************************************)
(* DL: the Download Queue (src/pytr/dl.py).                                *)
(***************************************************************************)
\* dl.py:92, mutated: the destination is never found on disk
FilepathExistsNever(filepath) == FALSE

\* dl.py:92  filepath.exists()
FilepathExists(filepath) == files[filepath] /= Absent

\* dl.py:96, mutated: the in-run queue is not consulted
InQueueNever(doc_url_base) == FALSE

\* dl.py:96  doc_url_base in self.doc_urls
InQueue(doc_url_base) == doc_url_base \in Range(doc_urls)

\* dl.py:99, mutated: the history is not consulted
InHistoryNever(doc_url_base) == FALSE

\* dl.py:99  doc_url_base in self.doc_urls_history
InHistory(doc_url_base) == doc_url_base \in Range(doc_urls_history)

\* dl.py:105-108  the future of session.get(doc_url), tagged
NewFuture(doc_url, filepath) ==
    [ url |-> doc_url, filepath |-> filepath,
      doc_url_base |-> DocUrlBase(doc_url), state |-> "pending" ]

\* dl.py:86-109  DL.dl_doc: the effect on self.doc_urls and self.futures
dl_doc(doc_url, filepath) ==
    IF FilepathExists(filepath)
    THEN UNCHANGED << doc_urls, futures >>
    ELSE IF InQueue(DocUrlBase(doc_url)) \/ InHistory(DocUrlBase(doc_url))
         THEN UNCHANGED << doc_urls, futures >>
         ELSE /\ doc_urls' = Append(doc_urls, DocUrlBase(doc_url))
              /\ futures' = Append(futures, NewFuture(doc_url, filepath))

\* dl.py:55-66  DL.load_history: the lines of the history file
LoadHistory(file) == SplitLines(file)

\* dl.py:134, mutated: the key is written without its line end
HistoryLineUnterminated(doc_url_base) == doc_url_base

\* dl.py:134  history_file.write(f'{future.doc_url_base}\n')
HistoryLine(doc_url_base) == Append(doc_url_base, Newline)

\* dl.py:119  leaving the with block (exit(0) or an exception) closes the
\* history file, which flushes what was written to it
CloseHistory(buf) == history_file \o buf

\* dl.py:115-119  work_responses up to its first wait: nothing to download
\* ends the run, otherwise the history file is opened for appending;
\* urls is self.doc_urls as the call finds it
work_responses_enter(urls) ==
    IF Len(urls) = 0
    THEN /\ pc' = "exit0"
         /\ UNCHANGED << files, history_file, history_buf, done, r >>
    ELSE /\ pc' = "drain"
         /\ history_buf' = <<>>
         /\ r' = Unset
         /\ UNCHANGED << files, history_file, done >>

\* dl.py:138, mutated: the run ends one download early
AllDoneEarly(n) == n + 1 >= Len(doc_urls)

\* dl.py:138  self.done == len(self.doc_urls)
AllDone(n) == n = Len(doc_urls)

\* dl.py:121-140  one turn of the as_completed loop: future i has completed,
\* with a response (ok) or with an exception.  log.fatal does not end the
\* run: after a failure r still holds the previous response, or is unbound.
ProcessFuture(i, ok) ==
    /\ pc = "drain"
    /\ futures[i].state = "pending"
    /\ LET f == futures[i]
           rr == IF ok THEN Body(f.url) ELSE r
       IN  /\ r' = rr
           /\ futures' = [futures EXCEPT ![i].state = IF ok THEN "ok" ELSE "failed"]
           /\ IF rr = Unset
              THEN \* open(filepath, 'wb') created the file; r.content raises
                   /\ files' = [files EXCEPT ![f.filepath] = EmptyFile]
                   /\ history_file' = CloseHistory(history_buf)
                   /\ history_buf' = <<>>
                   /\ pc' = "crashed"
                   /\ UNCHANGED done
              ELSE /\ files' = [files EXCEPT ![f.filepath] = rr]
                   /\ done' = done + 1
                   /\ IF AllDone(done + 1)
                      THEN /\ history_file' =
                                CloseHistory(history_buf \o HistoryLine(f.doc_url_base))
                           /\ history_buf' = <<>>
                           /\ pc' = "exit0"
                      ELSE /\ history_buf' = history_buf \o HistoryLine(f.doc_url_base)
                           /\ UNCHANGED << history_file, pc >>
    /\ UNCHANGED << doc_urls_history, doc_urls >>

(***************************************************************************)
(* The Download Queue on its own: a caller enqueues, then drains; a second *)
(* run of the process finds the directory and the history file as the      *)
(* first run left them.                                                    *)
(***************************************************************************)
\* the state of Timeline before dl_loop has run (utils.py:218-227, 458-475)
\* no event has been handed to the classifier
NoEvent == [eventType |-> <<>>, title |-> <<>>, icon |-> <<>>, sections |-> <<>>]

\* a call that has not been made
NotCalled == [exc |-> "not called", val |-> <<>>]

ClassifierIdle ==
    /\ cl_event = NoEvent
    /\ event_handler = <<>>
    /\ name = NotCalled
    /\ dl_calls = <<>>
    /\ isin = NotCalled

TimelineIdle ==
    /\ page_inflight = NoRequest
    /\ detail_inflight = {}
    /\ num_timelines = 0
    /\ timeline_events = <<>>
    /\ num_timeline_details = 0
    /\ requested_detail = 0
    /\ received_detail = 0
    /\ events_with_docs = {}
    /\ events_without_docs = {}
    /\ page_log = <<>>
    /\ fired = 0
    /\ unactionable = 0

\* dl.py:44-53  DL.__init__: counters and queues empty, the history loaded
DLConstructed ==
    /\ history_buf = <<>>
    /\ doc_urls_history = LoadHistory(history_file)
    /\ doc_urls = <<>>
    /\ futures = <<>>
    /\ done = 0
    /\ r = Unset

\* the Download Queue as a caller finds it, in any output directory
InitQueue ==
    /\ impl = "v2"
    /\ max_age_timestamp = 0
    /\ server_ts = <<>>
    /\ TimelineIdle
    /\ files \in [Paths -> {Absent, OldFile}]
    /\ history_file \in HistoryFiles
    /\ DLConstructed
    /\ pc = "enqueue"
    /\ run = 1
    /\ ncalls = 0
    /\ last_call = NoCall
    /\ prev_calls = {}
    /\ prev_ok = FALSE
    /\ last_msg = NoMessage
    /\ errors = 0
    /\ ClassifierIdle

InitDL ==
    /\ InitQueue
    /\ session = FuturesSession(DefaultWorkers)

\* a caller's dl_doc(doc_url, filepath); the second run is asked for documents
\* the first run was asked for
Enqueue(doc_url, filepath) ==
    /\ pc = "enqueue"
    /\ ncalls < MaxEnqueue
    /\ run = 2 => <<doc_url, filepath>> \in prev_calls
    /\ dl_doc(doc_url, filepath)
    /\ ncalls' = ncalls + 1
    /\ last_call' = filepath
    /\ prev_calls' = IF run = 1 THEN prev_calls \cup {<<doc_url, filepath>>}
                     ELSE prev_calls
    /\ UNCHANGED << tlvars, files, history_file, history_buf, doc_urls_history,
                    done, r, pc, run, prev_ok >>

\* a caller's work_responses()
Drain ==
    /\ pc = "enqueue"
    /\ work_responses_enter(doc_urls)
    /\ UNCHANGED << tlvars, doc_urls_history, doc_urls, futures, ghostvars >>

\* a scheduled fetch completes and the as_completed loop takes it
Complete(i, ok) ==
    /\ ProcessFuture(i, ok)
    /\ UNCHANGED << tlvars, ghostvars >>

\* the process has ended; the tool is run again on the same output directory
Restart ==
    /\ pc \in {"exit0", "crashed"}
    /\ run = 1
    /\ run' = 2
    /\ prev_ok' = (pc = "exit0" /\ \A i \in 1..Len(futures) : futures[i].state = "ok")
    /\ history_buf' = <<>>
    /\ doc_urls_history' = LoadHistory(history_file)
    /\ doc_urls' = <<>>
    /\ futures' = <<>>
    /\ done' = 0
    /\ r' = Unset
    /\ pc' = "enqueue"
    /\ ncalls' = 0
    /\ last_call' = NoCall
    /\ UNCHANGED << tlvars, files, history_file, prev_calls >>

NextDL ==
    \/ \E u \in Urls, p \in Paths : Enqueue(u, p) /\ UNCHANGED envvars
    \/ Drain /\ UNCHANGED envvars
    \/ \E i \in 1..Len(futures), ok \in BOOLEAN : Complete(i, ok) /\ UNCHANGED envvars
    \/ Restart /\ UNCHANGED envvars

SpecDL == InitDL /\ [][NextDL]_vars

\* every fetch that was scheduled completes (the HTTP layer answers or fails)
LiveSpecDL ==
    SpecDL /\ WF_vars(\E i \in 1..Len(futures), ok \in BOOLEAN :
                          Complete(i, ok) /\ UNCHANGED envvars)

\* the pool sizes a run may be configured with (main.py:56 --workers)
PoolSizes == {1, 2}

\* dl.py:43, mutated: the pool starts a worker for every submitted fetch
PoolHasIdleWorkerAlways(busy) == TRUE

\* dl.py:43  FuturesSession(max_workers=max_workers): the executor runs at
\* most max_workers worker threads
PoolHasIdleWorker(busy) == busy < session.max_workers

\* dl.py:105  the fetches session.get has submitted that no worker has taken
Queued ==
    { i \in 1..Len(futures) : i \notin session.running \cup session.fetched }

\* the process has not ended
Alive == pc \in {"init", "loop", "enqueue", "drain"}

\* dl.py:105  a worker of the session takes the oldest submitted fetch and
\* starts the HTTP request
StartFetch ==
    /\ Alive
    /\ Queued /= {}
    /\ PoolHasIdleWorker(Cardinality(session.running))
    /\ \E i \in Queued :
          /\ \A j \in Queued : i <= j
          /\ session' = [session EXCEPT !.running = @ \cup {i}]
    /\ UNCHANGED << tlvars, dlvars, pc, ghostvars, last_msg, errors, clvars >>

\* dl.py:105  the HTTP request of a worker ends (response or exception): the
\* future is done and the worker is idle again
FinishFetch(i) ==
    /\ Alive
    /\ i \in session.running
    /\ session' = [session EXCEPT !.running = @ \ {i}, !.fetched = @ \cup {i}]
    /\ UNCHANGED << tlvars, dlvars, pc, ghostvars, last_msg, errors, clvars >>

\* dl.py:121  as_completed yields a future whose fetch has ended
CompleteFetched(i, ok) ==
    /\ i \in session.fetched
    /\ Complete(i, ok)
    /\ UNCHANGED envvars

InitPool ==
    /\ InitQueue
    /\ \E n \in PoolSizes : session = FuturesSession(n)

NextPool ==
    \/ \E u \in Urls, p \in Paths : Enqueue(u, p) /\ UNCHANGED envvars
    \/ Drain /\ UNCHANGED envvars
    \/ StartFetch
    \/ \E i \in 1..Len(futures) : FinishFetch(i)
    \/ \E i \in 1..Len(futures), ok \in BOOLEAN : CompleteFetched(i, ok)

\* the Download Queue with the workers of its session: one run
SpecPool == InitPool /\ [][NextPool]_vars

\* dl.py:119-134  the process is killed (signal, power loss) while
\* work_responses waits for the next fetch.  history_file.write is buffered
\* and never flushed or synced inside the loop: of what was written since the
\* file was opened, any leading part may have reached the disk.
Kill(k) ==
    /\ pc = "drain"
    /\ k \in 0..Len(history_buf)
    /\ history_file' = history_file \o SubSeq(history_buf, 1, k)
    /\ history_buf' = <<>>
    /\ pc' = "killed"
    /\ UNCHANGED << tlvars, files, doc_urls_history, doc_urls, futures, done, r,
                    ghostvars, envvars >>

NextKill ==
    \/ NextDL
    \/ \E k \in 0..(2 * MaxEnqueue) : Kill(k)

\* the Download Queue in a process that may be killed during the drain
SpecKill == InitDL /\ [][NextKill]_vars

(***************************************************************************)
(* Phase 1: the server, the Pagination Walker, the Detail Resolution       *)
(* Window and the classifier (src/pytr/utils.py), driven by dl_loop.       *)
(***************************************************************************)
\* utils.py:255  the window: _get_timeline_details(5)
WindowSize == 5

\* the age cutoffs a run may be configured with (0: unbounded)
Cutoffs == {0, 2}

\* the timestamps of the items: older than, at, and newer than the cutoff
Timestamps == {1, 2, 3}

\* cursors.get('after') is None
NoCursor == 0

\* not yet answered
Pending == -1

RECURSIVE NonIncreasing(_)
NonIncreasing(s) ==
    \/ Len(s) <= 1
    \/ (s[1] >= s[2] /\ NonIncreasing(Tail(s)))

\* the timelines the server may hold: items newest first
Timelines ==
    UNION { { s \in [1..n -> Timestamps] : NonIncreasing(s) } : n \in 0..MaxItems }

\* what an event envelope carries for the screening of utils.py:278-298
EventShapes ==
    { [action |-> FALSE, actionLabel |-> FALSE, type |-> "", payloadIsId |-> FALSE],
      [action |-> FALSE, actionLabel |-> TRUE, type |-> "", payloadIsId |-> FALSE],
      [action |-> TRUE, actionLabel |-> FALSE, type |-> "timelineDetail", payloadIsId |-> TRUE],
      [action |-> TRUE, actionLabel |-> FALSE, type |-> "other", payloadIsId |-> TRUE],
      [action |-> TRUE, actionLabel |-> FALSE, type |-> "timelineDetail", payloadIsId |-> FALSE] }

NoDoc == << <<>>, "" >>

\* the document a detail payload may carry: none, or (url, destination path)
ResponseDocs == { NoDoc, << <<"a", "?", "x">>, "p1" >> }

Min(a, b) == IF a < b THEN a ELSE b

\* utils.py:281-298  msg != '': the popped event is skipped
SkipEvent(timestamp, shape, max_age) ==
    IF max_age /= 0 /\ timestamp > max_age THEN TRUE
    ELSE IF ~shape.action THEN ~shape.actionLabel
    ELSE IF shape.type /= "timelineDetail" THEN TRUE
    ELSE ~shape.payloadIsId

\* the window's part of the state, as _get_timeline_details works on it
WindowState ==
    [ events |-> timeline_events, requested |-> requested_detail,
      total |-> num_timeline_details, with |-> events_with_docs,
      without |-> events_without_docs, sent |-> {}, unactionable |-> unactionable ]

Last(s) == s[Len(s)]

Front(s) == SubSeq(s, 1, Len(s) - 1)

\* the shapes the popped event may have: any, while the timeline's share of
\* events that fail the screening by their shape is not used up
ShapesLeft(st) ==
    IF st.unactionable < MaxUnactionable THEN EventShapes
    ELSE { shape \in EventShapes : ~SkipEvent(0, shape, 0) }

\* utils.py:305, mutated: a skipped event stays in the total
SkippedStillCounted(st, event, byShape) ==
    [st EXCEPT !.events = Front(st.events),
               !.without = @ \cup {event},
               !.unactionable = IF byShape THEN @ + 1 ELSE @]

\* utils.py:299-301  the popped event is skipped: it leaves the total
Skipped(st, event, byShape) ==
    [st EXCEPT !.events = Front(st.events),
               !.without = @ \cup {event},
               !.total = @ - 1,
               !.unactionable = IF byShape THEN @ + 1 ELSE @]

\* utils.py:303-308, 484-489  the popped event's detail is requested
Asked(st, event) ==
    [st EXCEPT !.events = Front(st.events),
               !.with = @ \cup {event},
               !.requested = @ + 1,
               !.sent = @ \cup {<<event, st.requested + 1>>}]

RECURSIVE get_timeline_details(_, _, _)
\* utils.py:266-310  Timeline._get_timeline_details: every outcome, over the
\* shapes the popped events may have
get_timeline_details(num_torequest, max_age, st) ==
    IF num_torequest <= 0 \/ Len(st.events) = 0 THEN {st}
    ELSE LET event == Last(st.events)
             outcomes == { << SkipEvent(server_ts[event], shape, max_age),
                              SkipEvent(0, shape, 0) >> : shape \in ShapesLeft(st) }
         IN  UNION { UNION { get_timeline_details(left, max_age, next)
                             : left \in { IF o[1] THEN num_torequest
                                                  ELSE num_torequest - 1 },
                               next \in { IF o[1] THEN Skipped(st, event, o[2])
                                                  ELSE Asked(st, event) } }
                     : o \in outcomes }

\* utils.py:486-491  the popped event's detail is requested whatever its
\* shape: the envelope's action fields are not read
AskedUnscreened(st, event, byShape) ==
    [Asked(st, event) EXCEPT !.unactionable = IF byShape THEN @ + 1 ELSE @]

RECURSIVE get_timeline_details_v2_uncounted(_, _, _)
\* utils.py:489, mutated: num_torequest is not counted down
get_timeline_details_v2_uncounted(num_torequest, max_age, st) ==
    IF num_torequest <= 0 \/ Len(st.events) = 0 THEN {st}
    ELSE UNION { get_timeline_details_v2_uncounted(num_torequest, max_age, next)
                 : next \in { AskedUnscreened(st, Last(st.events), SkipEvent(0, shape, 0))
                              : shape \in ShapesLeft(st) } }

RECURSIVE get_timeline_details_v2(_, _, _)
\* utils.py:477-491  TimelineTransaction._get_timeline_details_v2, over the
\* shapes the popped events may have
get_timeline_details_v2(num_torequest, max_age, st) ==
    IF num_torequest <= 0 \/ Len(st.events) = 0 THEN {st}
    ELSE UNION { get_timeline_details_v2(left, max_age, next)
                 : left \in { num_torequest - 1 },
                   next \in { AskedUnscreened(st, Last(st.events), SkipEvent(0, shape, 0))
                              : shape \in ShapesLeft(st) } }

FillWindow(num_torequest, max_age, st) ==
    IF impl = "v1" THEN get_timeline_details(num_torequest, max_age, st)
    ELSE get_timeline_details_v2(num_torequest, max_age, st)

\* the window's state after a fill, and the detail requests it sent
SetWindow(st, answered) ==
    /\ timeline_events' = st.events
    /\ requested_detail' = st.requested
    /\ num_timeline_details' = st.total
    /\ events_with_docs' = st.with
    /\ events_without_docs' = st.without
    /\ unactionable' = st.unactionable
    /\ detail_inflight' = (detail_inflight \ answered) \cup st.sent

\* the constructed pipeline, before dl_loop
Init ==
    /\ impl \in {"v1", "v2"}
    /\ max_age_timestamp \in Cutoffs
    /\ server_ts \in Timelines
    \* without a cutoff no timestamp is read (utils.py:281, 782)
    /\ max_age_timestamp = 0 => \A i \in 1..Len(server_ts) : server_ts[i] = 1
    /\ TimelineIdle
    /\ files = [p \in Paths |-> Absent]
    /\ history_file = <<>>
    /\ DLConstructed
    /\ pc = "init"
    /\ run = 1
    /\ ncalls = 0
    /\ last_call = NoCall
    /\ prev_calls = {}
    /\ prev_ok = FALSE
    /\ session = FuturesSession(DefaultWorkers)
    /\ last_msg = NoMessage
    /\ errors = 0
    /\ ClassifierIdle

\* dl.py:77-80  the page streams dl_loop dispatches responses of, in the
\* order of its tests
Streams == << "timelineTransactions", "timelineActivityLog" >>

\* dl.py:69, utils.py:236-242, 762-768  dl_loop's first call: the lists are
\* reset and the first page is requested without a cursor
StartLoop ==
    /\ pc = "init"
    /\ pc' = "loop"
    /\ num_timelines' = 0
    /\ timeline_events' = <<>>
    /\ page_inflight' = NoCursor
    /\ page_log' = Append(page_log, [cursor |-> NoCursor, size |-> Pending, after |-> Pending])
    /\ UNCHANGED << impl, max_age_timestamp, server_ts, detail_inflight,
                    num_timeline_details, requested_detail, received_detail,
                    events_with_docs, events_without_docs, fired, unactionable,
                    dlvars, ghostvars >>

\* the sizes of the page the server may answer a request with: it serves the
\* items after the cursor, at least one while there are any
PageSizes(cursor) ==
    IF cursor = Len(server_ts) THEN {0}
    ELSE 1..Min(MaxPageSize, Len(server_ts) - cursor)

\* the cursor the server returns with a page: none with the last items
AfterOf(cursor, size) ==
    IF cursor + size < Len(server_ts) THEN cursor + size ELSE NoCursor

\* utils.py:782, mutated: a page whose oldest item is at the cutoff ends the walk
LastRelevantAtCutoff(timestamp, max_age) == max_age /= 0 /\ timestamp <= max_age

\* utils.py:256, 782  max_age_timestamp != 0 and timestamp < max_age_timestamp
LastRelevant(timestamp, max_age) == max_age /= 0 /\ timestamp < max_age

\* utils.py:791, mutated: the next page is requested without the cursor
NextPageCursorNone(after) == NoCursor

\* utils.py:264, 791  self.tr.timeline_transactions(after)
NextPageCursor(after) == after

\* the page the server answers a request with: size items after the cursor
ServerPage(cursor, size) ==
    [ items |-> [k \in 1..size |-> cursor + k], after |-> AfterOf(cursor, size) ]

\* utils.py:786-791, mutated: the window is filled on every page response,
\* also on one that requests the next page
get_next_timeline_fill_each_page(response, log) ==
    LET size == Len(response.items)
        after == response.after
        st0 == [WindowState EXCEPT !.events = timeline_events \o response.items,
                                   !.total = num_timeline_details + size]
    IN  IF size = 0
        THEN \* response['items'][-1]: IndexError, which ends dl_loop
             /\ pc' = "crashed"
             /\ page_inflight' = NoRequest
             /\ page_log' = log
             /\ UNCHANGED << num_timelines, timeline_events, num_timeline_details,
                             requested_detail, events_with_docs,
                             events_without_docs, detail_inflight,
                             unactionable >>
        ELSE /\ num_timelines' = num_timelines + 1
             /\ pc' = pc
             /\ IF after = NoCursor
                THEN /\ page_inflight' = NoRequest
                     /\ page_log' = log
                     /\ \E st \in FillWindow(WindowSize, 0, st0) : SetWindow(st, {})
                ELSE IF LastRelevant(server_ts[Last(response.items)], max_age_timestamp)
                THEN /\ page_inflight' = NoRequest
                     /\ page_log' = log
                     /\ \E st \in FillWindow(WindowSize, max_age_timestamp, st0) :
                           SetWindow(st, {})
                ELSE /\ page_inflight' = NextPageCursor(after)
                     /\ page_log' = Append(log,
                            [cursor |-> NextPageCursor(after),
                             size |-> Pending, after |-> Pending])
                     /\ \E st \in FillWindow(WindowSize, 0, st0) : SetWindow(st, {})

\* utils.py:243-264, 769-791  get_next_timeline / get_next_timeline_transactions
\* with a response; log is the page log the call finds
get_next_timeline(response, log) ==
    LET size == Len(response.items)
        after == response.after
        st0 == [WindowState EXCEPT !.events = timeline_events \o response.items,
                                   !.total = num_timeline_details + size]
    IN  IF size = 0
        THEN \* response['items'][-1]: IndexError, which ends dl_loop
             /\ pc' = "crashed"
             /\ page_inflight' = NoRequest
             /\ page_log' = log
             /\ UNCHANGED << num_timelines, timeline_events, num_timeline_details,
                             requested_detail, events_with_docs,
                             events_without_docs, detail_inflight,
                             unactionable >>
        ELSE /\ num_timelines' = num_timelines + 1
             /\ pc' = pc
             /\ IF after = NoCursor
                THEN /\ page_inflight' = NoRequest
                     /\ page_log' = log
                     /\ \E st \in FillWindow(WindowSize, 0, st0) : SetWindow(st, {})
                ELSE IF LastRelevant(server_ts[Last(response.items)], max_age_timestamp)
                THEN /\ page_inflight' = NoRequest
                     /\ page_log' = log
                     /\ \E st \in FillWindow(WindowSize, max_age_timestamp, st0) :
                           SetWindow(st, {})
                ELSE /\ page_inflight' = NextPageCursor(after)
                     /\ page_log' = Append(log,
                            [cursor |-> NextPageCursor(after),
                             size |-> Pending, after |-> Pending])
                     /\ SetWindow(st0, {})

\* the page log once the outstanding request is answered with this response
Answered(response) ==
    [page_log EXCEPT ![Len(page_log)].size = Len(response.items),
                     ![Len(page_log)].after = response.after]

\* dl.py:77-78  a page response is received and handed to get_next_timeline /
\* get_next_timeline_transactions
RecvPage(size) ==
    /\ pc = "loop"
    /\ page_inflight /= NoRequest
    /\ size \in PageSizes(page_inflight)
    /\ get_next_timeline(ServerPage(page_inflight, size),
                         Answered(ServerPage(page_inflight, size)))
    /\ UNCHANGED << impl, max_age_timestamp, server_ts, received_detail, fired,
                    dlvars, ghostvars >>

\* utils.py:707, mutated: the window is refilled on every response
RefillDueAlways(received, requested) == TRUE

\* utils.py:321, 707  self.received_detail == self.requested_detail
RefillDue(received, requested) == received = requested

\* utils.py:726, mutated: completion is declared one response early
AllReceivedEarly(received, total) == received + 1 >= total

\* utils.py:373, 726  self.received_detail == self.num_timeline_details
AllReceived(received, total) == received = total

\* the classifier's hand-over of a payload's document to the Download Queue
EnqueueDocument(doc) ==
    IF doc = NoDoc THEN UNCHANGED << doc_urls, futures >>
    ELSE dl_doc(doc[1], doc[2])

\* utils.py:312-384, 698-753  timelineDetail / timelineDetailV2 with the
\* response to request id: count, refill, classify, and on the terminal
\* condition flush the exports and call work_responses
timelineDetail(id, doc) ==
    LET received == received_detail + 1
        remaining == Len(timeline_events)
        fills == IF RefillDue(received, requested_detail)
                 THEN FillWindow(Min(remaining, WindowSize), 0, WindowState)
                 ELSE {WindowState}
    IN  \E st \in fills :
           /\ received_detail' = received
           /\ SetWindow(st, {id})
           /\ EnqueueDocument(doc)
           /\ IF AllReceived(received, st.total)
              THEN /\ fired' = fired + 1
                   /\ work_responses_enter(doc_urls')
              ELSE /\ UNCHANGED << fired, pc, files, history_file, history_buf,
                                   done, r >>

\* dl.py:81-82  a detail response is received and handed to timelineDetail /
\* timelineDetailV2
RecvDetail(id, doc) ==
    /\ pc = "loop"
    /\ id \in detail_inflight
    /\ timelineDetail(id, doc)
    /\ UNCHANGED << impl, max_age_timestamp, server_ts, page_inflight,
                    num_timelines, page_log, doc_urls_history, ghostvars >>

Next ==
    \/ StartLoop /\ UNCHANGED envvars
    \/ \E size \in 0..MaxPageSize : RecvPage(size) /\ UNCHANGED envvars
    \/ \E id \in detail_inflight, doc \in ResponseDocs :
          RecvDetail(id, doc) /\ UNCHANGED envvars
    \/ \E i \in 1..Len(futures), ok \in BOOLEAN : Complete(i, ok) /\ UNCHANGED envvars

Spec == Init /\ [][Next]_vars

\* the run up to the end of pagination: dl_loop starts, and the server
\* answers every page request it is sent
NextWalker ==
    \/ StartLoop /\ UNCHANGED envvars
    \/ \E size \in 0..MaxPageSize : RecvPage(size) /\ UNCHANGED envvars

LiveWalkerSpec == Init /\ [][NextWalker]_vars /\ WF_vars(NextWalker)

\* dl.py:73  subscription and response as recv() returns a page response
PageMessage(response) ==
    [NoMessage EXCEPT !.type = "page", !.items = response.items,
                      !.after = response.after]

\* dl.py:73  subscription and response as recv() returns a detail response
DetailMessage(id, doc) ==
    [NoMessage EXCEPT !.type = "detail", !.id = id, !.doc = doc]

\* dl.py:72-84  one turn of dl_loop in which recv() raises
\* TradeRepublicError: the except branch logs and the dispatch below it runs
\* on subscription and response as the turn before left them (unbound in the
\* first turn: a NameError ends dl_loop)
RecvError ==
    /\ pc = "loop"
    /\ errors < MaxErrors
    /\ errors' = errors + 1
    /\ IF last_msg.type = "none"
       THEN /\ pc' = "crashed"
            /\ UNCHANGED << page_inflight, detail_inflight, num_timelines,
                            timeline_events, num_timeline_details,
                            requested_detail, received_detail, events_with_docs,
                            events_without_docs, page_log, fired, unactionable,
                            dlvars >>
       ELSE IF last_msg.type = "page"
       THEN /\ get_next_timeline([items |-> last_msg.items, after |-> last_msg.after],
                                 page_log)
            /\ UNCHANGED << received_detail, fired, dlvars >>
       ELSE /\ timelineDetail(last_msg.id, last_msg.doc)
            /\ UNCHANGED << page_inflight, num_timelines, page_log,
                            doc_urls_history >>
    /\ UNCHANGED << impl, max_age_timestamp, server_ts, ghostvars, session,
                    last_msg, clvars >>

NextTransport ==
    \/ StartLoop /\ UNCHANGED envvars
    \/ \E size \in 0..MaxPageSize :
          /\ RecvPage(size)
          /\ last_msg' = PageMessage(ServerPage(page_inflight, size))
          /\ UNCHANGED << session, errors, clvars >>
    \/ \E id \in detail_inflight, doc \in ResponseDocs :
          /\ RecvDetail(id, doc)
          /\ last_msg' = DetailMessage(id, doc)
          /\ UNCHANGED << session, errors, clvars >>
    \/ RecvError
    \/ \E i \in 1..Len(futures), ok \in BOOLEAN : Complete(i, ok) /\ UNCHANGED envvars

\* a page that starts with the item the cursor stands on: the server answers
\* the request with an item it has served before (the timeline has moved
\* between two page requests, or two streams carry the event)
OverlappingPage(cursor, size) ==
    [ items |-> [k \in 1..size |-> cursor + k - 1],
      after |-> AfterOf(cursor - 1, size) ]

\* dl.py:77-78  a page response that repeats an item is received and handed
\* to get_next_timeline / get_next_timeline_transactions
RecvPageOverlap(size) ==
    /\ pc = "loop"
    /\ page_inflight >= 1
    /\ size >= 2
    /\ page_inflight + size - 1 <= Len(server_ts)
    /\ get_next_timeline(OverlappingPage(page_inflight, size),
                         Answered(OverlappingPage(page_inflight, size)))
    /\ UNCHANGED << impl, max_age_timestamp, server_ts, received_detail, fired,
                    dlvars, ghostvars >>

NextOverlap ==
    \/ StartLoop /\ UNCHANGED envvars
    \/ \E size \in 0..MaxPageSize : RecvPage(size) /\ UNCHANGED envvars
    \/ \E size \in 2..MaxPageSize : RecvPageOverlap(size) /\ UNCHANGED envvars
    \/ \E id \in detail_inflight, doc \in ResponseDocs :
          RecvDetail(id, doc) /\ UNCHANGED envvars
    \/ \E i \in 1..Len(futures), ok \in BOOLEAN : Complete(i, ok) /\ UNCHANGED envvars

InitOverlap ==
    /\ Init
    /\ Len(server_ts) <= MaxItemsRepeated

\* one run of the whole pipeline against a server whose pages may overlap
SpecOverlap == InitOverlap /\ [][NextOverlap]_vars

InitTransport ==
    /\ Init
    /\ Len(server_ts) <= MaxItemsRepeated

\* one run of the whole pipeline on a channel whose recv() may raise
SpecTransport == InitTransport /\ [][NextTransport]_vars

NextPhases ==
    \/ StartLoop /\ UNCHANGED envvars
    \/ \E size \in 0..MaxPageSize : RecvPage(size) /\ UNCHANGED envvars
    \/ \E id \in detail_inflight, doc \in ResponseDocs :
          RecvDetail(id, doc) /\ UNCHANGED envvars
    \/ StartFetch
    \/ \E i \in 1..Len(futures) : FinishFetch(i)
    \/ \E i \in 1..Len(futures), ok \in BOOLEAN : CompleteFetched(i, ok)

\* one run of the whole pipeline with the workers of the session
SpecPhases == Init /\ [][NextPhases]_vars

(***************************************************************************)
(* The Event Classifier: the helpers that read a detail payload.  Text     *)
(* that the code takes apart is a tuple of characters; a field a payload   *)
(* may lack is the empty tuple when absent, and a one-element tuple when    *)
(* present.  A call comes to a returned value, or to an exception.         *)
(***************************************************************************)
\* the longest list of sections a detail payload carries
MaxSections == 2

None == <<>>

Returned(val) == [exc |-> "", val |-> val]

Raised(exc) == [exc |-> exc, val |-> <<>>]

UpperCase ==
    { "A", "B", "C", "D", "E", "F", "G", "H", "I", "J", "K", "L", "M",
      "N", "O", "P", "Q", "R", "S", "T", "U", "V", "W", "X", "Y", "Z" }

Digit == { "0", "1", "2", "3", "4", "5", "6", "7", "8", "9" }

\* utils.py:15  the part of an icon path between "logos/" and "/v2" that
\* [A-Z]{2}-?[\dA-Z]{9}-?\d matches, written with (h1, h2) hyphens
IsinShaped(s, h1, h2) ==
    /\ Len(s) = 12 + h1 + h2
    /\ \A k \in 1..2 : s[k] \in UpperCase
    /\ h1 = 1 => s[3] = "-"
    /\ \A k \in (3 + h1)..(11 + h1) : s[k] \in UpperCase \cup Digit
    /\ h2 = 1 => s[12 + h1] = "-"
    /\ s[Len(s)] \in Digit

\* utils.py:15, 421-423  RE_ISIN_LOGO.match(icon): the captured group of
\* ^logos/([A-Z]{2}-?[\dA-Z]{9}-?\d)/v2$, or None ($ also matches before a
\* final line end)
RE_ISIN_LOGO(icon) ==
    LET text == IF icon /= <<>> /\ icon[Len(icon)] = "\n" THEN Front(icon) ELSE icon
        group == SubSeq(text, 7, Len(text) - 3)
    IN  IF /\ Len(text) >= 9
           /\ SubSeq(text, 1, 6) = << "l", "o", "g", "o", "s", "/" >>
           /\ SubSeq(text, Len(text) - 2, Len(text)) = << "/", "v", "2" >>
           /\ \E h1, h2 \in {0, 1} : IsinShaped(group, h1, h2)
        THEN << group >>
        ELSE None

\* utils.py:404-409  v = part[key], or v = part[k1][k2] for a list of keys;
\* the keys the code asks for are "title" and ["action", "type"]
Lookup(part, key) ==
    IF key = << "title" >> THEN Returned(<< part.title >>)
    ELSE IF part.action = None THEN Raised("KeyError")
    ELSE Returned(<< part.action[1].type >>)

RECURSIVE get_key(_, _, _)
\* utils.py:402-411  get_key: the first part whose value under key is value;
\* None when there is none; the exception of the first part that lacks key
get_key(parts, key, value) ==
    IF parts = <<>> THEN Returned(None)
    ELSE LET v == Lookup(Head(parts), key)
         IN  IF v.exc /= "" THEN v
             ELSE IF v.val[1] = value THEN Returned(<< Head(parts) >>)
             ELSE get_key(Tail(parts), key, value)

\* utils.py:417, 424  except (...): pass
Caught(call, exceptions) == call.exc \in exceptions

\* utils.py:414-426  get_isin
get_isin(ev) ==
    LET part == get_key(ev.sections, << "action", "type" >>, "instrumentDetail")
        payload == IF part.exc /= "" THEN part
                   ELSE IF part.val = None THEN Raised("TypeError")
                   ELSE Returned(<< part.val[1].action[1].payload >>)
        m == IF ev.icon = None THEN Raised("KeyError")
             ELSE Returned(RE_ISIN_LOGO(ev.icon[1]))
    IN  IF ~Caught(payload, {"TypeError", "KeyError", "IndexError"}) THEN payload
        ELSE IF ~Caught(m, {"TypeError", "KeyError"}) /\ m.val /= None THEN m
        ELSE Returned(<< <<>> >>)

\* ---- the detail payloads the server may answer with
Entry(title, text) == [title |-> title, text |-> text, url |-> None, file |-> ""]

\* an entry of the documents section: title, date, action.payload, and the
\* file the handler's destination path ends in
DocEntry(title, url, file) ==
    [title |-> title, text |-> "01.02.2024", url |-> << url >>, file |-> file]

Overview(data) == [title |-> "Übersicht", action |-> None, data |-> data]

Documents(data) == [title |-> "Dokumente", action |-> None, data |-> data]

InstrumentDetail ==
    [type |-> "instrumentDetail", payload |-> << "I", "E", "0", "0", "B", "4", "L", "5", "Y", "9", "8", "3" >>]

SectionShapes ==
    { Overview(<< Entry("Ereignis", "Dividende"), Entry("Asset", "Apple"),
                  Entry("Von", "A"), Entry("An", "B"), Entry("Status", "ok"),
                  Entry("IBAN", "DE00") >>),
      Overview(<< Entry("Ereignis", "Dividende"), Entry("Von", "A"),
                  Entry("An", "B"), Entry("Status", "ok") >>),
      Documents(<<>>),
      Documents(<< DocEntry("Abrechnung", << "a", "?", "x" >>, "p1") >>),
      Documents(<< DocEntry("Abrechnung", << "a", "?", "x" >>, "p1"),
                   DocEntry("Kosteninformation", << "b" >>, "p2") >>),
      [title |-> "Wertpapier", action |-> << InstrumentDetail >>, data |-> <<>>],
      [title |-> "Transaktion", action |-> None, data |-> <<>>],
      [title |-> "Hilfe",
       action |-> << [type |-> "customerSupportChat", payload |-> << "x" >>] >>,
       data |-> <<>>] }

SectionLists == UNION { [1..n -> SectionShapes] : n \in 0..MaxSections }

\* utils.py:717  the event-type tags
Tags ==
    { << "C", "R", "E", "D", "I", "T" >>, << "C", "r", "e", "d", "i", "t" >>, << "P", "A", "Y", "M", "E", "N", "T", "_", "I", "N", "B", "O", "U", "N", "D" >>, << "O", "R", "D", "E", "R", "_", "E", "X", "E", "C", "U", "T", "E", "D" >>,
      << "S", "T", "O", "C", "K", "_", "P", "E", "R", "K", "_", "R", "E", "F", "U", "N", "D", "E", "D" >> }

\* utils.py:421  the icon paths: none, two that name an ISIN, one that does not
Icons ==
    { None, << << "l", "o", "g", "o", "s", "/", "U", "S", "0", "3", "7", "8", "3", "3", "1", "0", "0", "5", "/", "v", "2" >> >>, << << "l", "o", "g", "o", "s", "/", "U", "S", "-", "0", "3", "7", "8", "3", "3", "1", "0", "0", "-", "5", "/", "v", "2" >> >>,
      << << "l", "o", "g", "o", "s", "/", "b", "i", "t", "c", "o", "i", "n", "/", "v", "2" >> >> }

\* the events of the transaction log once their details are attached
\* (utils.py:714-715); amount, timestamp and subtitle are always there
Events ==
    [ eventType : Tags, title : { None, << "Apple" >> }, icon : Icons,
      sections : SectionLists ]

\* get_isin on its own: an event with its details is given, and the function
\* is applied to it
InitIsin ==
    /\ impl = "v2"
    /\ max_age_timestamp = 0
    /\ server_ts = <<>>
    /\ TimelineIdle
    /\ files = [p \in Paths |-> Absent]
    /\ history_file = <<>>
    /\ DLConstructed
    /\ pc = "init"
    /\ run = 1
    /\ ncalls = 0
    /\ last_call = NoCall
    /\ prev_calls = {}
    /\ prev_ok = FALSE
    /\ session = FuturesSession(DefaultWorkers)
    /\ last_msg = NoMessage
    /\ errors = 0
    /\ cl_event \in Events
    /\ event_handler = <<>>
    /\ name = NotCalled
    /\ dl_calls = <<>>
    /\ isin = NotCalled

\* utils.py:517, 575, 586  isin = get_isin(event)
GetIsin ==
    /\ isin = NotCalled
    /\ isin' = get_isin(cl_event)
    /\ UNCHANGED << tlvars, dlvars, pc, ghostvars, session, last_msg, errors,
                    cl_event, event_handler, name, dl_calls >>

NextIsin == GetIsin

SpecIsin == InitIsin /\ [][NextIsin]_vars

(***************************************************************************)
(* The Event Classifier: dispatch and handlers.  A handler's call comes to *)
(* what it returns or raises, together with the dl.dl_doc_v2 calls it has  *)
(* made by then.                                                           *)
(***************************************************************************)
UpperLetters ==
    << "A", "B", "C", "D", "E", "F", "G", "H", "I", "J", "K", "L", "M",
       "N", "O", "P", "Q", "R", "S", "T", "U", "V", "W", "X", "Y", "Z" >>

LowerLetters ==
    << "a", "b", "c", "d", "e", "f", "g", "h", "i", "j", "k", "l", "m",
       "n", "o", "p", "q", "r", "s", "t", "u", "v", "w", "x", "y", "z" >>

\* utils.py:717  str.lower()
Lower(s) ==
    [ k \in 1..Len(s) |->
        IF s[k] \in UpperCase
        THEN LowerLetters[CHOOSE n \in 1..26 : UpperLetters[n] = s[k]]
        ELSE s[k] ]

\* utils.py:493-688  the attributes of TimelineTransaction whose names begin
\* with event_
Attributes ==
    { << "e", "v", "e", "n", "t", "_", "c", "o", "u", "p", "o", "n", "_", "p", "a", "y", "m", "e", "n", "t" >>, << "e", "v", "e", "n", "t", "_", "c", "r", "e", "d", "i", "t" >>,
      << "e", "v", "e", "n", "t", "_", "i", "n", "t", "e", "r", "e", "s", "t", "_", "p", "a", "y", "o", "u", "t", "_", "c", "r", "e", "a", "t", "e", "d", "_" >>, << "e", "v", "e", "n", "t", "_", "o", "r", "d", "e", "r", "_", "e", "x", "e", "c", "u", "t", "e", "d", "_" >>,
      << "e", "v", "e", "n", "t", "_", "p", "a", "y", "m", "e", "n", "t", "_", "i", "n", "b", "o", "u", "n", "d" >>, << "e", "v", "e", "n", "t", "_", "p", "a", "y", "m", "e", "n", "t", "_", "o", "u", "t", "b", "o", "u", "n", "d" >>,
      << "e", "v", "e", "n", "t", "_", "p", "a", "y", "m", "e", "n", "t", "_", "i", "n", "b", "o", "u", "n", "d", "_", "s", "e", "p", "a", "_", "d", "i", "r", "e", "c", "t", "_", "d", "e", "b", "i", "t" >>, << "e", "v", "e", "n", "t", "_", "r", "e", "p", "a", "y", "m", "e", "n", "t" >>,
      << "e", "v", "e", "n", "t", "_", "s", "a", "v", "i", "n", "g", "s", "_", "p", "l", "a", "n", "_", "e", "x", "e", "c", "u", "t", "e", "d" >>, << "e", "v", "e", "n", "t", "_", "b", "e", "n", "e", "f", "i", "t", "s", "_", "s", "a", "v", "e", "b", "a", "c", "k", "_", "e", "x", "e", "c", "u", "t", "i", "o", "n" >>,
      << "e", "v", "e", "n", "t", "_", "b", "e", "n", "e", "f", "i", "t", "s", "_", "s", "p", "a", "r", "e", "_", "c", "h", "a", "n", "g", "e", "_", "e", "x", "e", "c", "u", "t", "i", "o", "n" >>,
      << "e", "v", "e", "n", "t", "_", "c", "a", "r", "d", "_", "s", "u", "c", "c", "e", "s", "s", "f", "u", "l", "_", "t", "r", "a", "n", "s", "a", "c", "t", "i", "o", "n" >>,
      << "e", "v", "e", "n", "t", "_", "c", "a", "r", "d", "_", "s", "u", "c", "c", "e", "s", "s", "f", "u", "l", "_", "v", "e", "r", "i", "f", "i", "c", "a", "t", "i", "o", "n" >>, << "e", "v", "e", "n", "t", "_", "u", "n", "k", "n", "o", "w", "n" >> }

\* utils.py:717  getattr(self, 'event_' + event["eventType"].lower(),
\* self.event_unknown): the name of the handler found
getattr(ev) ==
    LET attr == << "e", "v", "e", "n", "t", "_" >> \o Lower(ev.eventType)
    IN  IF attr \in Attributes THEN attr ELSE << "e", "v", "e", "n", "t", "_", "u", "n", "k", "n", "o", "w", "n" >>

\* a handler's call: returned, with the dl_doc_v2 calls made
Done(val, calls) == [exc |-> "", val |-> << val >>, calls |-> calls]

\* a handler's call: raised, with the dl_doc_v2 calls made before
Failed(exc, calls) == [exc |-> exc, val |-> <<>>, calls |-> calls]

\* utils.py:438-453  get_documents(event): the entries of the section
\* "Dokumente"; none when there is no such section (TypeError, caught)
get_documents(ev) ==
    LET documents == get_key(ev.sections, << "title" >>, "Dokumente")
    IN  IF documents.exc /= "" \/ documents.val = None THEN <<>>
        ELSE documents.val[1].data

\* utils.py:506, 522, 693  dl.dl_doc_v2(doc.url, filepath, doc.id), the
\* path being folder / ... / file
DocCall(doc, folder) == [url |-> doc.url[1], folder |-> folder, file |-> doc.file]

\* utils.py:498-500, 514-516  get_key(parts, "title", title)["data"] or
\* ["detail"]["text"]: None is not subscriptable
Field(parts, title, field) ==
    LET part == get_key(parts, << "title" >>, title)
    IN  IF part.exc /= "" THEN part
        ELSE IF part.val = None THEN Raised("TypeError")
        ELSE Returned(<< part.val[1][field] >>)

\* utils.py:509-523  event_credit
event_credit(ev) ==
    LET overview_data == Field(ev.sections, "Übersicht", "data")
        description == Field(overview_data.val[1], "Ereignis", "text")
        asset == Field(overview_data.val[1], "Asset", "text")
        docs == get_documents(ev)
        calls == << DocCall(docs[1], description.val[1]) >>
    IN  IF overview_data.exc /= "" THEN Failed(overview_data.exc, <<>>)
        ELSE IF description.exc /= "" THEN Failed(description.exc, <<>>)
        ELSE IF asset.exc /= "" THEN Failed(asset.exc, <<>>)
        ELSE IF docs = <<>> THEN Failed("IndexError", <<>>)
        ELSE IF ev.title = None THEN Failed("KeyError", calls)
        ELSE Done(<< "subtitle", ev.title[1] >>, calls)

\* utils.py:537  {data["title"]: data["detail"]["text"] for data in section["data"]}
Infos(section) ==
    [ title \in { section.data[k].title : k \in 1..Len(section.data) } |->
        LET k == CHOOSE k \in 1..Len(section.data) :
                    /\ section.data[k].title = title
                    /\ \A m \in (k + 1)..Len(section.data) : section.data[m].title /= title
        IN  section.data[k].text ]

\* utils.py:531-543  payment: the first section "Übersicht" is read; a key
\* it lacks raises KeyError
payment(ev, counterstr) ==
    LET section == get_key(ev.sections, << "title" >>, "Übersicht")
    IN  IF section.val = None THEN Done(<< "amount", "currency" >>, <<>>)
        ELSE IF { counterstr, "Status", "IBAN" } \subseteq DOMAIN Infos(section.val[1])
        THEN Done(<< "amount", "currency" >>, <<>>)
        ELSE Failed("KeyError", <<>>)

\* utils.py:545-547  event_payment_inbound
event_payment_inbound(ev) ==
    LET s == payment(ev, "Von")
    IN  IF s.exc /= "" THEN s
        ELSE Done(<< "Payment inbound" >> \o s.val[1], s.calls)

\* utils.py:688-696  event_unknown: after the loop doc is the last document,
\* and unbound when there was none; UnboundLocalError is not caught
event_unknown(ev) ==
    LET docs == get_documents(ev)
        calls == [k \in 1..Len(docs) |-> DocCall(docs[k], "other")]
    IN  IF ev.title = None THEN Done(<< ev.eventType, "-- No document" >>, <<>>)
        ELSE IF docs = <<>> THEN Failed("UnboundLocalError", calls)
        ELSE Done(<< ev.eventType, Last(docs).title, ev.title[1] >>, calls)

\* utils.py:718  event_handler(event, dl, max_age_timestamp)
Call(handler, ev) ==
    CASE handler = << "e", "v", "e", "n", "t", "_", "c", "r", "e", "d", "i", "t" >> -> event_credit(ev)
      [] handler = << "e", "v", "e", "n", "t", "_", "p", "a", "y", "m", "e", "n", "t", "_", "i", "n", "b", "o", "u", "n", "d" >> -> event_payment_inbound(ev)
      [] handler = << "e", "v", "e", "n", "t", "_", "u", "n", "k", "n", "o", "w", "n" >> -> event_unknown(ev)

\* the Download Queue's enqueue, as a handler calls it: on the queue q the
\* calls so far have left
dl_doc_v2(q, call) ==
    IF FilepathExists(call.file) THEN q
    ELSE IF DocUrlBase(call.url) \in Range(q.urls) \/ InHistory(DocUrlBase(call.url))
    THEN q
    ELSE [ urls |-> Append(q.urls, DocUrlBase(call.url)),
           futures |-> Append(q.futures, NewFuture(call.url, call.file)) ]

RECURSIVE HandOver(_, _)
\* the queue after a handler's dl_doc_v2 calls, in their order
HandOver(q, calls) ==
    IF calls = <<>> THEN q
    ELSE HandOver(dl_doc_v2(q, Head(calls)), Tail(calls))

\* utils.py:698-753  timelineDetailV2 with the response to request id, whose
\* details make the event ev: count, refill, classify, and on the terminal
\* condition flush the exports and call work_responses.  An exception of the
\* handler leaves timelineDetailV2 at line 718 and ends dl_loop.
timelineDetailV2(id, ev) ==
    LET received == received_detail + 1
        remaining == Len(timeline_events)
        fills == IF RefillDue(received, requested_detail)
                 THEN FillWindow(Min(remaining, WindowSize), 0, WindowState)
                 ELSE {WindowState}
        handler == getattr(ev)
        result == Call(handler, ev)
        q == HandOver([urls |-> doc_urls, futures |-> futures], result.calls)
    IN  \E st \in fills :
           /\ received_detail' = received
           /\ SetWindow(st, {id})
           /\ cl_event' = ev
           /\ event_handler' = handler
           /\ name' = [exc |-> result.exc, val |-> result.val]
           /\ dl_calls' = result.calls
           /\ doc_urls' = q.urls
           /\ futures' = q.futures
           /\ IF result.exc /= ""
              THEN /\ pc' = "crashed"
                   /\ UNCHANGED << fired, files, history_file, history_buf,
                                   done, r >>
              ELSE IF AllReceived(received, st.total)
              THEN /\ fired' = fired + 1
                   /\ work_responses_enter(doc_urls')
              ELSE /\ UNCHANGED << fired, pc, files, history_file, history_buf,
                                   done, r >>

\* dl.py:81-82  a detail response is received and handed to timelineDetailV2
RecvDetailV2(id, ev) ==
    /\ pc = "loop"
    /\ id \in detail_inflight
    /\ timelineDetailV2(id, ev)
    /\ UNCHANGED << impl, max_age_timestamp, server_ts, page_inflight,
                    num_timelines, page_log, doc_urls_history, ghostvars,
                    session, last_msg, errors, isin >>

\* the events a run of the transaction log classifies: the handlers read the
\* sections "Übersicht" and "Dokumente"; the icon and the actions of the
\* sections are read by get_isin alone
ClassifiedEvents ==
    { ev \in Events :
         /\ ev.icon = None
         /\ \A k \in 1..Len(ev.sections) :
               ev.sections[k].title \in { "Übersicht", "Dokumente" } }

NextClassifier ==
    \/ StartLoop /\ UNCHANGED envvars
    \/ \E size \in 0..MaxPageSize : RecvPage(size) /\ UNCHANGED envvars
    \/ \E id \in detail_inflight, ev \in ClassifiedEvents : RecvDetailV2(id, ev)
    \/ \E i \in 1..Len(futures), ok \in BOOLEAN : Complete(i, ok) /\ UNCHANGED envvars

\* the transaction log with at most MaxItemsClassified events
InitClassifier ==
    /\ Init
    /\ impl = "v2"
    /\ max_age_timestamp = 0
    /\ Len(server_ts) <= MaxItemsClassified

\* one run of the pipeline over the transaction log, every detail payload
\* classified by its handler
SpecClassifier == InitClassifier /\ [][NextClassifier]_vars

(***************************************************************************)
(* dl_loop on a channel that also carries messages of subscriptions the    *)
(* loop does not dispatch.                                                 *)
(***************************************************************************)
\* dl.py:1-14  the names bound in the module dl
ModuleNames ==
    { "re", "as_completed", "Path", "FuturesSession", "session",
      "sanitize_filepath", "Timeline", "get_logger", "TradeRepublicError", "DL" }

\* a global name is looked up in the module, and raises NameError when it
\* is not bound there
Resolves(global) == global \in ModuleNames

\* dl.py:77-83  the subscription types dl_loop has a branch for
HandledTypes == { "timelineTransactions", "timelineActivityLog", "timelineDetailV2" }

\* subscription types of the channel that dl_loop has no branch for
UnmatchedTypes == { "ticker", "portfolio" }

\* dl.py:73  subscription and response as recv() returns a message of
\* another subscription
UnmatchedMessage(type) == [NoMessage EXCEPT !.type = type]

\* dl.py:83-84  the else branch of dl_loop: the warning's text is built with
\* preview(response) before log.warning is called; a NameError leaves
\* dl_loop
RecvUnmatched(type) ==
    /\ pc = "loop"
    /\ type \notin HandledTypes
    /\ last_msg' = UnmatchedMessage(type)
    /\ pc' = IF Resolves("preview") THEN pc ELSE "crashed"
    /\ UNCHANGED << tlvars, dlvars, ghostvars, session, errors, clvars >>

NextUnmatched ==
    \/ StartLoop /\ UNCHANGED envvars
    \/ \E size \in 0..MaxPageSize :
          /\ RecvPage(size)
          /\ last_msg' = PageMessage(ServerPage(page_inflight, size))
          /\ UNCHANGED << session, errors, clvars >>
    \/ \E id \in detail_inflight, doc \in ResponseDocs :
          /\ RecvDetail(id, doc)
          /\ last_msg' = DetailMessage(id, doc)
          /\ UNCHANGED << session, errors, clvars >>
    \/ \E type \in UnmatchedTypes : RecvUnmatched(type)
    \/ \E i \in 1..Len(futures), ok \in BOOLEAN : Complete(i, ok) /\ UNCHANGED envvars

InitUnmatched ==
    /\ Init
    /\ Len(server_ts) <= MaxItemsRepeated

\* one run of the whole pipeline on a channel that carries other
\* subscriptions too
SpecUnmatched == InitUnmatched /\ [][NextUnmatched]_vars

(***************************************************************************)
(* Claims.                                                                 *)
(***************************************************************************)
\* the spec's canonical document key: the URL up to, not including, its
\* first "?" (the whole URL when it has none)
QueryStart(url) ==
    IF \E k \in 1..Len(url) : url[k] = "?"
    THEN CHOOSE k \in 1..Len(url) :
            url[k] = "?" /\ \A m \in 1..(k - 1) : url[m] /= "?"
    ELSE Len(url) + 1

CanonicalKey(url) == SubSeq(url, 1, QueryStart(url) - 1)

FutureIx == 1..Len(futures)

\* the accumulated event set: the events still pending and those popped
Accumulated == Range(timeline_events) \cup events_with_docs \cup events_without_docs

\* dl_loop has started and no page request is outstanding
WalkerStopped == pc /= "init" /\ page_inflight = NoRequest

LastPage == page_log[Len(page_log)]

RECURSIVE SumSizes(_)
SumSizes(log) == IF log = <<>> THEN 0 ELSE Head(log).size + SumSizes(Tail(log))

\* C1: the detail requests sent and not yet answered never number more than
\* the window size 5, by the counters and on the channel.
C1_WindowBound ==
    /\ requested_detail - received_detail <= 5
    /\ Cardinality(detail_inflight) <= 5

\* the window is full while further events wait for their turn
C1_Witness ==
    /\ requested_detail - received_detail = 5
    /\ Cardinality(detail_inflight) = 5
    /\ timeline_events /= <<>>

\* C2: the terminal condition received == total fires at most once in a run,
\* and when it has fired no event is pending and every detail request sent
\* has been answered (received == requested, nothing on the channel).
C2_CompletionSafe ==
    /\ fired <= 1
    /\ fired = 1 => /\ timeline_events = <<>>
                    /\ received_detail = requested_detail
                    /\ detail_inflight = {}

\* the terminal condition has fired in a run that refilled the window
C2_Witness ==
    /\ fired = 1
    /\ received_detail > 5
    /\ pc \in {"drain", "exit0"}

\* C3: whenever no request is outstanding after pagination, or the run has
\* ended, the terminal condition has fired (a run that waits for a message
\* nobody will send, or ends before, never fires it).
C3_CompletionReached ==
    (\/ (pc = "loop" /\ page_inflight = NoRequest /\ detail_inflight = {})
     \/ pc \in {"crashed", "exit0"})
        => fired = 1

C4_Coverage ==
    WalkerStopped =>
        /\ \A i \in 1..Len(server_ts) :
              server_ts[i] >= max_age_timestamp => i \in Accumulated
        /\ \A i \in Accumulated :
              server_ts[i] < max_age_timestamp
                  => i \in (LastPage.cursor + 1)..(LastPage.cursor + LastPage.size)

\* C4: for every timeline, paging and cutoff the walker stops requesting
\* pages for good; the accumulated events then include every item at or
\* after the cutoff, and the older items among them are all of the last
\* page fetched.
C4_WalkerStops ==
    /\ <>[] WalkerStopped
    /\ [] C4_Coverage

\* the walker stopped at the cutoff with pages left on the server, after
\* more than one page, and holds items older than the cutoff
C4_Witness ==
    /\ WalkerStopped
    /\ max_age_timestamp /= 0
    /\ Len(page_log) >= 2
    /\ LastPage.after /= NoCursor
    /\ \E i \in Accumulated : server_ts[i] < max_age_timestamp

\* C5: the first page request carries no cursor and each later one the
\* cursor of the page before; without a cutoff the walker stops exactly at
\* the page that has no cursor (n pages, n requests), and the accumulated
\* events then number the sum of the page sizes.
C5_PageRequests ==
    /\ page_log /= <<>> => page_log[1].cursor = NoCursor
    /\ \A k \in 2..Len(page_log) :
          /\ page_log[k - 1].after /= NoCursor
          /\ page_log[k].cursor = page_log[k - 1].after
    /\ (WalkerStopped /\ max_age_timestamp = 0) =>
          /\ LastPage.after = NoCursor
          /\ Cardinality(Accumulated) = SumSizes(page_log)

\* Scenario A: 3 items with a cursor, then 2 items without: 2 requests, 5 events
C5_Witness ==
    /\ WalkerStopped
    /\ max_age_timestamp = 0
    /\ Len(page_log) = 2
    /\ page_log[1].size = 3 /\ page_log[2].size = 2
    /\ Cardinality(Accumulated) = 5

AllFetchesOk == \A i \in FutureIx : futures[i].state \in {"pending", "ok"}

\* C6: the fetches scheduled in a run have pairwise distinct canonical keys
\* (URL without its query string), and none of these keys is in the history
\* that was loaded at startup.
C6_ScheduledKeysDistinct ==
    /\ \A i, j \in FutureIx :
          i /= j => CanonicalKey(futures[i].url) /= CanonicalKey(futures[j].url)
    /\ \A i \in FutureIx :
          CanonicalKey(futures[i].url) \notin Range(doc_urls_history)

\* two calls whose URLs differ only in the query string were made for
\* different paths, and one fetch is scheduled
C6_Witness ==
    /\ run = 1 /\ pc = "enqueue" /\ ncalls = 2
    /\ prev_calls = { << <<"a", "?", "x">>, "p1" >>, << <<"a", "?", "y">>, "p2" >> }
    /\ files["p1"] = Absent /\ files["p2"] = Absent
    /\ Len(futures) = 1

\* C7: a dl_doc call whose destination path exists on disk changes nothing:
\* no key is recorded, no fetch is scheduled, the queue total, the history
\* and the directory stay as they were.
C7_ExistingPathNoOp ==
    [][ (ncalls' = ncalls + 1 /\ files[last_call'] /= Absent)
            => UNCHANGED << doc_urls, futures, doc_urls_history, history_file,
                            history_buf, done, files >> ]_vars

\* dl_doc was called for an existing path while the history and the queue
\* were empty (so only the path can have stopped it), and nothing is queued
C7_Witness ==
    /\ run = 1 /\ ncalls = 1 /\ pc = "enqueue"
    /\ files[last_call] /= Absent
    /\ doc_urls_history = <<>>
    /\ futures = <<>> /\ doc_urls = <<>>

\* C8: no two scheduled fetches of a run write the same destination path
\* (of two dl_doc calls naming one path only the first schedules a fetch).
C8_OneFetchPerPath ==
    \A i, j \in FutureIx : i /= j => futures[i].filepath /= futures[j].filepath

\* C9: when every fetch of the first run succeeded and the run ended with
\* exit(0), a second run on the same directory and history file, asked for
\* the same (url, path) pairs, schedules no fetch.
C9_SecondRunNoFetch ==
    (run = 2 /\ prev_ok) => (futures = <<>> /\ doc_urls = <<>>)

\* the second run was asked for two documents after a first run that had
\* downloaded one document and skipped the other as queued already
C9_Witness ==
    /\ run = 2 /\ prev_ok /\ ncalls = 2
    /\ prev_calls = { << <<"a", "?", "x">>, "p1" >>, << <<"a", "?", "y">>, "p2" >> }
    /\ files["p1"] = Body(<<"a", "?", "x">>) /\ files["p2"] = Absent

C10_Terminated ==
    (pc = "exit0" /\ AllFetchesOk) =>
        /\ done = Len(doc_urls)
        /\ \A i \in FutureIx :
              /\ \E j \in FutureIx : /\ futures[j].filepath = futures[i].filepath
                                     /\ files[futures[i].filepath] = Body(futures[j].url)
              /\ CanonicalKey(futures[i].url) \in Range(SplitLines(history_file))

C10_EmptyDrain ==
    (pc = "enqueue" /\ pc' /= "enqueue" /\ doc_urls = <<>>)
        => (pc' = "exit0" /\ UNCHANGED << files, history_file, done >>)

\* C10: once work_responses waits for the fetches and every fetch succeeds,
\* the run ends with exit(0) whatever the order of completion; it ends with
\* done = total, every scheduled destination written and every scheduled key
\* in the history file; with nothing scheduled work_responses ends the run at
\* once and writes neither file nor history.
C10_DrainTerminates ==
    /\ (pc = "drain") ~> (pc = "exit0" \/ ~AllFetchesOk)
    /\ [] C10_Terminated
    /\ [][C10_EmptyDrain]_vars

\* a run with two scheduled fetches, both successful, has ended
C10_Witness ==
    /\ pc = "exit0" /\ run = 1
    /\ Len(futures) = 2
    /\ \A i \in FutureIx : futures[i].state = "ok"

\* the fetches of the run that ended with a response
OkIx == { i \in FutureIx : futures[i].state = "ok" }

\* what the open history file holds: what is on disk and what was written
\* to it since it was opened
HistoryWritten == SplitLines(history_file \o history_buf)

\* C11: a fetch that failed leaves no trace and is fatal: nothing is written
\* at its destination path (the path is absent, or holds the body of a
\* successful fetch for that path), its key is not written to the history,
\* done counts the successful fetches only, and the run does not end with
\* exit(0).
C11_FailedFetchFatal ==
    \A i \in FutureIx :
        futures[i].state = "failed" =>
            /\ pc /= "exit0"
            /\ done = Cardinality(OkIx)
            /\ CanonicalKey(futures[i].url) \notin Range(HistoryWritten)
            /\ \/ files[futures[i].filepath] = Absent
               \/ \E j \in OkIx : /\ futures[j].filepath = futures[i].filepath
                                  /\ files[futures[i].filepath] = Body(futures[j].url)

\* C12: the history is append-only and records successful downloads only:
\* the entries loaded at startup stay as its first lines, and every line
\* after them is the key of a fetch that succeeded and whose body is at its
\* destination path, each key at most once.
C12_HistoryRecordsSuccess ==
    LET lines == HistoryWritten
        old == Len(doc_urls_history)
    IN  /\ Len(lines) >= old
        /\ SubSeq(lines, 1, old) = doc_urls_history
        /\ \A k \in (old + 1)..Len(lines) :
              /\ \E i \in OkIx : /\ CanonicalKey(futures[i].url) = lines[k]
                                 /\ files[futures[i].filepath] = Body(futures[i].url)
              /\ \A m \in (old + 1)..Len(lines) : m /= k => lines[m] /= lines[k]

\* C13: when the process is killed during the drain, the key of every
\* document that was completely processed before (fetched, written, counted)
\* is in the history file on disk.
C13_CompletedKeysDurable ==
    pc = "killed" =>
        \A i \in OkIx : CanonicalKey(futures[i].url) \in Range(SplitLines(history_file))

\* C14: the drain, its downloads and the fetch workers are active only after
\* the terminal condition has fired, and once it has fired no page or detail
\* request is outstanding (no inbound message is left to process).
C14_PhaseBarrier ==
    /\ (pc \in {"drain", "exit0"} \/ done > 0) => fired = 1
    /\ (session.running \cup session.fetched) /= {} => fired = 1
    /\ fired = 1 => (page_inflight = NoRequest /\ detail_inflight = {})

C16_TransportErrorAborts ==
    [][ errors' = errors + 1 =>
            /\ pc' \notin {"loop", "drain", "exit0"}
            /\ UNCHANGED << num_timelines, timeline_events, num_timeline_details,
                            requested_detail, received_detail, events_with_docs,
                            events_without_docs, page_inflight, detail_inflight,
                            doc_urls, futures >> ]_vars

\* C17: a page response without items does not raise: the run goes on (the
\* walker stops requesting pages and the window is seeded with what was
\* accumulated).
C17_EmptyPageIsExhaustion ==
    (page_log /= <<>> /\ LastPage.size = 0) => pc /= "crashed"

\* the event ids a detail request was sent for
RequestedIds == events_with_docs

\* C18: the accumulated events hold each id once, and the total-detail
\* counter counts each accumulated id that was not skipped once.
C18_FirstWriterWins ==
    /\ \A i, j \in 1..Len(timeline_events) :
          i /= j => timeline_events[i] /= timeline_events[j]
    /\ num_timeline_details = Cardinality(Range(timeline_events) \cup RequestedIds)

\* C19: at most one detail request is sent per event id and at most one
\* response is attached per event id: neither counter exceeds the number of
\* ids requested, and no two outstanding requests name one id.
C19_ResolvedOnce ==
    /\ requested_detail <= Cardinality(RequestedIds)
    /\ received_detail <= Cardinality(RequestedIds)
    /\ \A q1, q2 \in detail_inflight : q1[1] = q2[1] => q1 = q2

\* C20: every popped event whose shape fails the screening (an event with
\* neither an action nor an actionLabel is one) is among the skipped events:
\* no detail request was counted for it, and it left the total-detail
\* counter, which numbers the events requested and the events still pending.
C20_UnactionableSkipped ==
    /\ unactionable <= Cardinality(events_without_docs)
    /\ requested_detail = Cardinality(events_with_docs)
    /\ num_timeline_details = requested_detail + Len(timeline_events)

\* the screening of Timeline._get_timeline_details (utils.py:292-306) keeps it
C20_HoldsInV1 == impl = "v1" => C20_UnactionableSkipped

C25_CutoffScreening ==
    (impl = "v1" /\ max_age_timestamp /= 0) =>
        \A event \in RequestedIds : server_ts[event] <= max_age_timestamp

\* the seeding fill has run and no detail response has come in yet
Seeded == pc = "loop" /\ num_timelines > 0 /\ page_inflight = NoRequest /\ received_detail = 0

\* C26: the popped events that fail the screening by their shape (an action
\* of another type, or a payload that is not the event's id) are among the
\* skipped events, which are never requested; every outstanding request is
\* keyed by an event counted as requested, once; and skipped events take none
\* of the slots of a fill: the seeding fill ends with five requests or with
\* the pending list used up.
C26_ScreeningOutcome ==
    /\ unactionable <= Cardinality(events_without_docs \ events_with_docs)
    /\ \A q \in detail_inflight : q[1] \in events_with_docs
    /\ \A q1, q2 \in detail_inflight : q1[1] = q2[1] => q1 = q2
    /\ requested_detail = Cardinality(events_with_docs)
    /\ Seeded => (requested_detail = WindowSize \/ timeline_events = <<>>)

\* Timeline._get_timeline_details (utils.py:295-298, 303-310) keeps it
C26_HoldsInV1 == impl = "v1" => C26_ScreeningOutcome

\* C27: no detail request is sent while a page request is outstanding; once
\* pagination has ended no page request is sent; and the step that takes a
\* page response in finds nothing requested, leaves nothing requested when
\* it asks for the next page, and when it ends pagination leaves the window
\* seeded: with five requests, or with fewer and nothing pending.
C27_PaginationThenResolution ==
    /\ [](requested_detail > 0 => page_inflight = NoRequest)
    /\ [][ (pc /= "init" /\ page_inflight = NoRequest) =>
              (page_log' = page_log /\ page_inflight' = NoRequest) ]_vars
    /\ [][ (page_inflight /= NoRequest /\ page_log' /= page_log) =>
              /\ requested_detail = 0 /\ detail_inflight = {}
              /\ requested_detail' <= WindowSize
              /\ Cardinality(detail_inflight') = requested_detail'
              /\ IF page_inflight' /= NoRequest
                 THEN requested_detail' = 0
                 ELSE requested_detail' = WindowSize \/ timeline_events' = <<>> ]_vars

\* pagination took three pages and the third seeded the window with five
\* requests, leaving an event pending
C27_Witness ==
    /\ Len(page_log) = 3
    /\ page_inflight = NoRequest
    /\ received_detail = 0
    /\ requested_detail = WindowSize
    /\ timeline_events /= <<>>

\* C29: once pagination has ended, the events the pages brought are the
\* requested, the skipped and the pending ones, each in exactly one of the
\* three; the total is requested + pending; and received <= requested <= total.
C29_CounterConservation ==
    WalkerStopped =>
        /\ SumSizes(page_log)
              = requested_detail + Cardinality(events_without_docs) + Len(timeline_events)
        /\ num_timeline_details = requested_detail + Len(timeline_events)
        /\ received_detail <= requested_detail
        /\ requested_detail <= num_timeline_details
        /\ Accumulated = 1..SumSizes(page_log)
        /\ Cardinality(events_with_docs) = requested_detail
        /\ Cardinality(Range(timeline_events)) = Len(timeline_events)
        /\ events_with_docs \cap events_without_docs = {}
        /\ Range(timeline_events) \cap (events_with_docs \cup events_without_docs) = {}

\* after a pagination of two pages an event has been skipped, five are
\* requested and one of them is answered
C29_Witness ==
    /\ WalkerStopped
    /\ Len(page_log) = 2
    /\ events_without_docs /= {}
    /\ received_detail >= 1
    /\ requested_detail = WindowSize

\* C30: every recorded canonical key has its scheduled fetch and every
\* scheduled fetch its key; done lies between 0 and the number of keys and
\* equals the number of entries this run has appended to the history.
C30_QueueBookkeeping ==
    /\ Len(futures) = Len(doc_urls)
    /\ \A i \in FutureIx : futures[i].doc_url_base = doc_urls[i]
    /\ 0 <= done /\ done <= Len(doc_urls)
    /\ done = Len(HistoryWritten) - Len(doc_urls_history)

\* in the middle of a drain: one of two scheduled fetches is written and its
\* key appended
C30_Witness ==
    /\ pc = "drain"
    /\ Len(doc_urls) = 2
    /\ done = 1
    /\ Len(HistoryWritten) = 1

\* the streams started so far: each stream's first page is requested
\* without a cursor
StreamsStarted ==
    Cardinality({ k \in 1..Len(page_log) : page_log[k].cursor = NoCursor })

\* C23: when a stream is exhausted (its last page carries no cursor) and a
\* further stream is configured, that stream is started next: the walker
\* does not stop, and the window is not seeded, before every stream has
\* been started.
C23_SecondStreamNext ==
    /\ (WalkerStopped /\ page_log /= <<>> /\ LastPage.after = NoCursor)
          => StreamsStarted = Len(Streams)
    /\ (requested_detail > 0 /\ max_age_timestamp = 0)
          => StreamsStarted = Len(Streams)

\* the sections of an event's details that carry an instrumentDetail action
InstrumentSections(ev) ==
    { k \in 1..Len(ev.sections) :
         /\ ev.sections[k].action /= None
         /\ ev.sections[k].action[1].type = "instrumentDetail" }

\* the icon path's part between "logos/" and "/v2", when it has that shape
\* around an ISIN
IconIsin(icon) ==
    IF /\ Len(icon) >= 9
       /\ SubSeq(icon, 1, 6) = << "l", "o", "g", "o", "s", "/" >>
       /\ SubSeq(icon, Len(icon) - 2, Len(icon)) = << "/", "v", "2" >>
       /\ \E h1, h2 \in {0, 1} : IsinShaped(SubSeq(icon, 7, Len(icon) - 3), h1, h2)
    THEN << SubSeq(icon, 7, Len(icon) - 3) >>
    ELSE None

\* C28: get_isin never raises; it returns the payload of the instrumentDetail
\* action when any section carries one, wherever that section stands and
\* whatever the other sections carry; failing that the ISIN of an icon path
\* of the shape logos/{ISIN}/v2; and the empty string otherwise.
C28_IsinDerivation ==
    isin /= NotCalled =>
        /\ isin.exc = ""
        /\ IF InstrumentSections(cl_event) /= {}
           THEN \E k \in InstrumentSections(cl_event) :
                   isin.val = << cl_event.sections[k].action[1].payload >>
           ELSE IF cl_event.icon /= None /\ IconIsin(cl_event.icon[1]) /= None
           THEN isin.val = IconIsin(cl_event.icon[1])
           ELSE isin.val = << <<>> >>

\* get_isin does what C28 says on every event whose sections before the
\* instrumentDetail section all carry an action
C28_HoldsWithActionsBefore ==
    (\A k \in 1..Len(cl_event.sections) :
        (\E m \in InstrumentSections(cl_event) : k < m)
           => cl_event.sections[k].action /= None)
      => C28_IsinDerivation

\* the handlers that read the overview and documents sections of a payload
SectionReaders == { << "e", "v", "e", "n", "t", "_", "c", "r", "e", "d", "i", "t" >>, << "e", "v", "e", "n", "t", "_", "p", "a", "y", "m", "e", "n", "t", "_", "i", "n", "b", "o", "u", "n", "d" >> }

\* a payload with every section and field its handlers read: a title, a
\* first overview section with every key, and a document
WellFormed(ev) ==
    /\ ev.title /= None
    /\ get_documents(ev) /= <<>>
    /\ \E k \in 1..Len(ev.sections) :
          /\ ev.sections[k].title = "Übersicht"
          /\ \A m \in 1..(k - 1) : ev.sections[m].title /= "Übersicht"
          /\ { "Ereignis", "Asset", "Von", "Status", "IBAN" } \subseteq
                { ev.sections[k].data[n].title : n \in 1..Len(ev.sections[k].data) }

\* C21: classifying an event whose detail payload lacks an expected section
\* or field does not abort the run: the handler completes with a value, and
\* the terminal-condition check of that response is still performed, so the
\* last response of the run fires it.
C21_MalformedPayloadRecovered ==
    event_handler \in SectionReaders =>
        /\ name.exc = ""
        /\ pc /= "crashed"
        /\ received_detail = num_timeline_details => fired >= 1

\* the handlers do what C21 says on the payloads that lack nothing
C21_HoldsOnWellFormed ==
    (event_handler \in SectionReaders /\ WellFormed(cl_event)) =>
        /\ name.exc = ""
        /\ (pc = "loop" /\ received_detail = num_timeline_details) => fired >= 1

\* the handler whose name is event_ and the tag, letter case set aside; the
\* fallback handler when there is none
HandlerOf(tag) ==
    IF \E a \in Attributes : Lower(a) = Lower(<< "e", "v", "e", "n", "t", "_" >> \o tag)
    THEN CHOOSE a \in Attributes : Lower(a) = Lower(<< "e", "v", "e", "n", "t", "_" >> \o tag)
    ELSE << "e", "v", "e", "n", "t", "_", "u", "n", "k", "n", "o", "w", "n" >>

\* C22: the event-type tag is mapped to its handler whatever its letter
\* case, a tag without a handler goes to the fallback handler, and the
\* fallback handler hands each attached document to the Download Queue under
\* the folder "other" and returns a summary line without raising, whether
\* the event carries several documents, one or none.
C22_DispatchAndFallback ==
    event_handler /= <<>> =>
        /\ event_handler = HandlerOf(cl_event.eventType)
        /\ event_handler = << "e", "v", "e", "n", "t", "_", "u", "n", "k", "n", "o", "w", "n" >> =>
              /\ name.exc = ""
              /\ name.val /= <<>>
              /\ Len(dl_calls) = Len(get_documents(cl_event))
              /\ \A k \in 1..Len(dl_calls) :
                    /\ dl_calls[k].folder = "other"
                    /\ dl_calls[k].url = get_documents(cl_event)[k].url[1]

\* the dispatch and the fallback handler do what C22 says on the events that
\* carry a title and at least one document
C22_HoldsWithDocuments ==
    (cl_event.title /= None /\ get_documents(cl_event) /= <<>>)
        => C22_DispatchAndFallback

\* a step of dl_loop that takes a message of a subscription it has no
\* branch for
UnmatchedTaken == last_msg' /= last_msg /\ last_msg'.type \in UnmatchedTypes

\* C31: a message whose subscription type is none of the handled kinds is
\* ignored: walker, window counters, event set and Download Queue stay as
\* they are, and dl_loop goes on to the next message.
C31_UnmatchedIgnored ==
    [][UnmatchedTaken => (UNCHANGED << tlvars, dlvars >> /\ pc' = pc)]_vars

\* the frame part of C31 is what the code does: the step changes nothing of
\* walker, window, event set and queue
C31_FrameKept ==
    [][UnmatchedTaken => UNCHANGED << tlvars, dlvars >>]_vars

====
